---------------------------- MODULE Spec2Model ----------------------------
(***************************************************************************)
(* Domain-colouring plotter: the Canvas pixel buffer, the HSV -> RGB       *)
(* conversion, the per-pixel colour sampler and the paint_complex loop of  *)
(* complex_plot.                                                           *)
(*                                                                         *)
(* Numbers.  A double is modelled as an extended fixed-point value         *)
(*   [k |-> "fin", n |-> numerator over Scale] | NaN | +Inf | -Inf.        *)
(* Scale is a multiple of 2*W for every canvas width W of the model, so    *)
(* the quotients x/w and the constant 0.5 of the pixel-to-plane mapping    *)
(* are exact.  sqrt, sin, pow and atan2 are evaluated on that grid with a  *)
(* quantisation that keeps sign, zero and range (see each operator).       *)
(* Arithmetic on grid values is exact: the rounding of a double in its     *)
(* last bit is not modelled.                                               *)
(***************************************************************************)
EXTENDS Integers, FiniteSets, TLC

VARIABLES
    pc,         \* position inside complex_plot / the hsv2rgb driver
    imageSize,  \* complex_plot's imageSize parameter
    fkind,      \* paint_complex's parameter f ("none" before the call)
    xRange,     \* paint_complex's parameter xRange (0 before the call)
    yRange,     \* paint_complex's parameter yRange (0 before the call)
    canvas,     \* the Canvas object: [size, pixels]
    x,          \* paint_complex: inner loop counter
    y,          \* paint_complex: outer loop counter
    op,         \* the operation that produced this state
    call,       \* arguments of the last Canvas::write call
    sample,     \* the last sample taken by paint_complex
    hsv,        \* the HSVColor of the last hsv2rgb call
    rgb,        \* the outcome of the last hsv2rgb call
    encoded,    \* what complex_plot handed to sixel_encode
    nwrites,    \* number of direct Canvas::write calls made so far
    npaint      \* number of Canvas::write calls made by paint_complex

vars == <<pc, imageSize, fkind, xRange, yRange, canvas, x, y, op, call,
          sample, hsv, rgb, encoded, nwrites, npaint>>

----------------------------------------------------------------------------
(* Bounds of the model *)

MaxDim == 3

MaxWrites == 1

(* main's xRange / yRange *)
MainRange == 4

RECURSIVE Gcd(_, _)
Gcd(a, b) == IF b = 0 THEN a ELSE Gcd(b, a % b)

RECURSIVE LcmUpTo(_)
LcmUpTo(n) == IF n <= 1 THEN 1
              ELSE LET l == LcmUpTo(n - 1) IN (l * n) \div Gcd(l, n)

(* fixed-point denominator: a multiple of 2*W for every W in 1..MaxDim,     *)
(* hence of 12 (MaxDim is at least 3)                                       *)
Scale == 2 * LcmUpTo(MaxDim)

Half == Scale \div 2

One == Scale

Dims == 1 .. MaxDim

Sizes == [width : Dims, height : Dims]

Ranges == {1, MainRange}

Functions == {"z", "zz", "inv"}

(* the colour of the direct Canvas::write calls *)
Colors == { [red |-> 10, green |-> 20, blue |-> 30] }

----------------------------------------------------------------------------
(* Extended reals *)

Fin(n) == [k |-> "fin", n |-> n]

NaN == [k |-> "nan", n |-> 0]

Inf(s) == [k |-> "inf", n |-> s]

isnan(v) == v.k = "nan"

isinf(v) == v.k = "inf"

isfinite(v) == v.k = "fin"

Abs(n) == IF n < 0 THEN -n ELSE n

Sign(n) == IF n < 0 THEN -1 ELSE IF n > 0 THEN 1 ELSE 0

(* integer quotient rounded toward zero, as C++ conversion to a grid point *)
Quot(a, b) == Sign(a) * Sign(b) * (Abs(a) \div Abs(b))

(* least r with r*r >= n *)
CeilSqrt(n) == CHOOSE r \in 0 .. n : r * r >= n /\ (r = 0 \/ (r - 1) * (r - 1) < n)

(* greatest r with r*r <= n *)
FloorSqrt(n) == CHOOSE r \in 0 .. n : r * r <= n /\ (r + 1) * (r + 1) > n

Min(a, b) == IF a < b THEN a ELSE b

----------------------------------------------------------------------------
(* ImageSize, Point, Canvas *)

(* faulty variant: the area taken as width * width *)
ImageSizeAreaSquare(size) == size.width * size.width

ImageSizeArea(size) == size.width * size.height

Point(px, py) == [x |-> px, y |-> py]

(* faulty variant: the buffer is resized but the fill with 0xFF is left out *)
CanvasNewZeroed(size) ==
    [size |-> size,
     pixels |-> [i \in 0 .. (ImageSizeArea(size) * 3 - 1) |-> 0]]

CanvasNew(size) ==
    [size |-> size,
     pixels |-> [i \in 0 .. (ImageSizeArea(size) * 3 - 1) |-> 255]]

(* faulty variant: the upper bound on p.x is off by one *)
InBoundsInclusive(c, p) ==
    0 <= p.x /\ p.x <= c.size.width /\ 0 <= p.y /\ p.y < c.size.height

InBounds(c, p) ==
    0 <= p.x /\ p.x < c.size.width /\ 0 <= p.y /\ p.y < c.size.height

(* faulty variant: the row stride in pixels instead of bytes *)
PixelOffsetPixelStride(c, p) == p.y * c.size.width + p.x * 3

PixelOffset(c, p) == p.y * c.size.width * 3 + p.x * 3

CanvasWrite(c, p, color) ==
    IF ~InBounds(c, p)
    THEN c
    ELSE LET pixel == PixelOffset(c, p) IN
         [c EXCEPT !.pixels =
            [i \in DOMAIN c.pixels |->
                IF i = pixel THEN color.red
                ELSE IF i = pixel + 1 THEN color.green
                ELSE IF i = pixel + 2 THEN color.blue
                ELSE c.pixels[i]]]

----------------------------------------------------------------------------
(* hsv2rgb *)

HSVColor(h, s, v) == [hue |-> h, saturation |-> s, value |-> v]

RGBColor(r, g, b) == [red |-> r, green |-> g, blue |-> b]

(* 0.0 <= v && v <= 1.0: false for NaN and for the infinities *)
InUnit(v) == isfinite(v) /\ 0 <= v.n /\ v.n <= One

hsv2rgbAsserts(c) == InUnit(c.hue) /\ InUnit(c.saturation) /\ InUnit(c.value)

(* common denominator of the channel values r, g, b *)
ChanDen == 60 * Scale * Scale * Scale

(* faulty variant: the channel is rounded to the nearest byte *)
ToByteRounded(n) == (2 * n * 255 + ChanDen) \div (2 * ChanDen)

(* static_cast<unsigned char>(ch * 255.0), ch = n / ChanDen in [0,1] *)
ToByte(n) == (n * 255) \div ChanDen

(* hue after `if (hue == 360) hue = 0; else hue = hue / 60`, as a         *)
(* numerator over 60*Scale                                                  *)
hsv2rgbSectorHue(h) == IF h = 360 * Scale THEN 0 ELSE h

(* i = static_cast<int>(trunc(hue)): the sector index hsv2rgb switches on *)
hsv2rgbSector(h) == hsv2rgbSectorHue(h) \div (60 * Scale)

(* the three channel numerators over ChanDen, for finite in-range h, s, v *)
hsv2rgbChannels(h, s, v) ==
    LET vN == v * 60 * Scale * Scale IN
    IF s = 0
    THEN <<vN, vN, vN>>
    ELSE LET hueN == hsv2rgbSectorHue(h)               \* numerator over 60*Scale
             i    == hsv2rgbSector(h)
             f    == hueN - i * 60 * Scale              \* over 60*Scale
             p    == v * (Scale - s) * 60 * Scale
             q    == v * (60 * Scale * Scale - s * f)
             t    == v * (60 * Scale * Scale - s * (60 * Scale - f))
         IN  CASE i = 0 -> <<vN, t, p>>
               [] i = 1 -> <<q, vN, p>>
               [] i = 2 -> <<p, vN, t>>
               [] i = 3 -> <<p, q, vN>>
               [] i = 4 -> <<t, p, vN>>
               [] OTHER -> <<vN, p, q>>

hsv2rgb(c) ==
    IF ~hsv2rgbAsserts(c)
    THEN [ok |-> FALSE, color |-> RGBColor(0, 0, 0)]
    ELSE LET ch == hsv2rgbChannels(c.hue.n, c.saturation.n, c.value.n) IN
         [ok |-> TRUE,
          color |-> RGBColor(ToByte(ch[1]), ToByte(ch[2]), ToByte(ch[3]))]

----------------------------------------------------------------------------
(* The colour sampler of paint_complex *)

Complex(re, im) == [re |-> re, im |-> im]

(* z(x,y) := r(x,y) * exp(theta(x,y) * i): the polar form of x + i*y, which *)
(* is x + i*y again                                                         *)
z(xf, yf) == Complex(Fin(xf), Fin(yf))

(* The outputs f can produce at the plane point zc.  "z" and "zz" are the  *)
(* two functions main plots; "inv" is 1/z, whose value at the origin is a  *)
(* division by zero: (inf, nan) or (nan, nan), depending on how the build   *)
(* divides complex numbers.                                                 *)
f(kind, zc) ==
    LET a == zc.re.n
        b == zc.im.n
    IN  CASE kind = "z"  -> { zc }
          [] kind = "zz" -> { Complex(Fin(Quot(a * a - b * b, Scale)),
                                      Fin(Quot(2 * a * b, Scale))) }
          [] OTHER ->
                IF a = 0 /\ b = 0
                THEN { Complex(Inf(1), NaN), Complex(NaN, NaN) }
                ELSE { Complex(Fin(Quot(a * Scale * Scale, a * a + b * b)),
                               Fin(Quot(-b * Scale * Scale, a * a + b * b))) }

(* floor(12 * t / (2*pi)) for the direction t in [0, 2*pi) of (dx, dy);    *)
(* the comparisons with tan(30) and tan(60) are exact                       *)
Sector12(dx, dy) ==
    LET q == CASE dx > 0 /\ dy >= 0 -> 0
               [] dx <= 0 /\ dy > 0 -> 1
               [] dx < 0 /\ dy <= 0 -> 2
               [] dx >= 0 /\ dy < 0 -> 3
               [] OTHER -> 0
        u == CASE q = 0 -> dx [] q = 1 -> dy [] q = 2 -> -dx [] OTHER -> -dy
        v == CASE q = 0 -> dy [] q = 1 -> -dx [] q = 2 -> -dy [] OTHER -> dx
        sub == IF 3 * v * v < u * u THEN 0
               ELSE IF v * v < 3 * u * u THEN 1 ELSE 2
    IN  IF dx = 0 /\ dy = 0 THEN 0 ELSE 3 * q + sub

(* angle(x,y) := (pi + atan2(-y, -x)) / (2*pi), the direction of (x, y) as *)
(* a fraction of the full turn, rounded down to a twelfth.  atan2 takes an  *)
(* infinite argument as a direction; a NaN argument gives NaN.              *)
angle(re, im) ==
    IF isnan(re) \/ isnan(im)
    THEN NaN
    ELSE LET anyInf == isinf(re) \/ isinf(im)
             dx == IF anyInf THEN (IF isinf(re) THEN re.n ELSE 0) ELSE re.n
             dy == IF anyInf THEN (IF isinf(im) THEN im.n ELSE 0) ELSE im.n
         IN  Fin(Sector12(dx, dy) * (Scale \div 12))

(* abs(w) - floor(abs(w)) over Scale, rounded up (below 1) so that it is 0  *)
(* exactly when abs(w) is an integer; inf - inf and NaN give NaN            *)
MagnitudeFraction(w) ==
    IF isinf(w.re) \/ isinf(w.im) \/ isnan(w.re) \/ isnan(w.im)
    THEN NaN
    ELSE LET n2 == w.re.n * w.re.n + w.im.n * w.im.n
             whole == FloorSqrt(n2) \div Scale
         IN  Fin(Min(Scale - 1, CeilSqrt(n2) - whole * Scale))

(* magnitude_shading(x,y) := 0.5 + 0.5 * (abs(f(z)) - floor(abs(f(z))))    *)
magnitude_shading(w) ==
    LET fr == MagnitudeFraction(w) IN
    IF isnan(fr) THEN NaN ELSE Fin(Half + (fr.n + 1) \div 2)

(* sin(t * pi) over Scale for t = n / Scale (Bhaskara's rational form of    *)
(* the sine: exact sign, zeros and maxima)                                  *)
SinPi(n) ==
    LET m == n % (2 * Scale)
        k == m % Scale
        b == (16 * k * (Scale - k) * Scale)
                \div (5 * Scale * Scale - 4 * k * (Scale - k))
    IN  IF m < Scale THEN b ELSE -b

(* pow(s, 0.1) for s = n / Scale in [0,1], rounded down to a quarter *)
PowThreshold(n) ==
    LET r == CHOOSE r \in 0 .. 4 :
                /\ (r ^ 10) * Scale <= n * (4 ^ 10)
                /\ (r = 4 \/ ((r + 1) ^ 10) * Scale > n * (4 ^ 10))
    IN  r * (Scale \div 4)

(* gridlines(x,y): abs(pow(sin(re*pi), threshold)) *                        *)
(* pow(abs(sin(im*pi)), threshold); pow of a negative base is NaN; a NaN or *)
(* infinite product is replaced by 1.0                                      *)
gridlines(w) ==
    LET first  == IF ~isfinite(w.re) THEN NaN
                  ELSE IF SinPi(w.re.n) < 0 THEN NaN
                  ELSE Fin(PowThreshold(SinPi(w.re.n)))
        second == IF ~isfinite(w.im) THEN NaN
                  ELSE Fin(PowThreshold(Abs(SinPi(w.im.n))))
        value  == IF isnan(first) \/ isnan(second) THEN NaN
                  ELSE Fin((first.n * second.n) \div Scale)
    IN  IF isnan(value) \/ isinf(value) THEN Fin(One) ELSE value

(* the HSVColor that color(x,y) hands to hsv2rgb, for the output w of f *)
color(w) == HSVColor(angle(w.re, w.im), magnitude_shading(w), gridlines(w))

(* xf = ((double(x) / w) - 0.5) * xRange, over Scale *)
PlaneCoord(i, n, range) == (((i * Scale) \div n) - Half) * range

----------------------------------------------------------------------------
(* complex_plot: Canvas(imageSize), paint_complex, sixel_encode *)

NoCall == [p |-> Point(0, 0), color |-> RGBColor(255, 255, 255)]

NoSample == [px |-> -1, py |-> -1, xf |-> 0, yf |-> 0,
             w |-> Complex(Fin(0), Fin(0))]

NoHSV == HSVColor(Fin(0), Fin(0), Fin(0))

NoRGB == [ok |-> TRUE, color |-> RGBColor(0, 0, 0)]

NoEncode == [len |-> 0, width |-> 0, height |-> 0, depth |-> 0]

(* the state right after `auto canvas = Canvas(imageSize)` *)
Init ==
    /\ imageSize \in Sizes
    /\ fkind = "none"
    /\ xRange = 0
    /\ yRange = 0
    /\ canvas = CanvasNew(imageSize)
    /\ pc = "constructed"
    /\ x = 0
    /\ y = 0
    /\ op = "new"
    /\ call = NoCall
    /\ sample = NoSample
    /\ hsv = NoHSV
    /\ rgb = NoRGB
    /\ encoded = NoEncode
    /\ nwrites = 0
    /\ npaint = 0

(* a direct call canvas.write(p, color), before paint_complex is entered   *)
(* or after it has returned                                                 *)
Write(p, c) ==
    /\ pc \in {"constructed", "painted"}
    /\ nwrites < MaxWrites
    /\ canvas' = CanvasWrite(canvas, p, c)
    /\ call' = [p |-> p, color |-> c]
    /\ op' = "write"
    /\ nwrites' = nwrites + 1
    /\ UNCHANGED <<pc, imageSize, fkind, xRange, yRange, x, y, sample, hsv,
                   rgb, encoded, npaint>>

(* paint_complex(canvas, xRange, yRange, f) is entered: y = 0, x = 0 *)
PaintBegin(xr, yr, fk) ==
    /\ pc = "constructed"
    /\ pc' = "paint"
    /\ xRange' = xr
    /\ yRange' = yr
    /\ fkind' = fk
    /\ x' = 0
    /\ y' = 0
    /\ op' = "begin"
    /\ UNCHANGED <<imageSize, canvas, call, sample, hsv, rgb, encoded,
                   nwrites, npaint>>

(* one iteration of the inner loop: canvas.write(Point{x,y}, color(xf,yf)), *)
(* then ++x (and ++y, x = 0 at the end of a row); a failed assertion of     *)
(* hsv2rgb aborts the program before the write                              *)
PaintStep ==
    /\ pc = "paint"
    /\ LET yf == PlaneCoord(y, canvas.size.height, yRange)
           xf == PlaneCoord(x, canvas.size.width, xRange)
       IN  \E w \in f(fkind, z(xf, yf)) :
             LET c   == color(w)
                 out == hsv2rgb(c)
                 p   == Point(x, y)
                 lastX == x + 1 >= canvas.size.width
                 lastY == y + 1 >= canvas.size.height
             IN  /\ sample' = [px |-> x, py |-> y, xf |-> xf, yf |-> yf, w |-> w]
                 /\ hsv' = c
                 /\ rgb' = out
                 /\ op' = "paint"
                 /\ IF out.ok
                    THEN /\ canvas' = CanvasWrite(canvas, p, out.color)
                         /\ call' = [p |-> p, color |-> out.color]
                         /\ npaint' = npaint + 1
                         /\ x' = IF lastX THEN 0 ELSE x + 1
                         /\ y' = IF lastX THEN y + 1 ELSE y
                         /\ pc' = IF lastX /\ lastY THEN "painted" ELSE "paint"
                    ELSE /\ pc' = "aborted"
                         /\ UNCHANGED <<canvas, call, x, y, npaint>>
    /\ UNCHANGED <<imageSize, fkind, xRange, yRange, encoded, nwrites>>

(* sixel_encode(canvas.pixels.data(), imageSize.width, imageSize.height, 3) *)
Encode ==
    /\ pc = "painted"
    /\ encoded' = [len |-> Cardinality(DOMAIN canvas.pixels),
                   width |-> imageSize.width,
                   height |-> imageSize.height,
                   depth |-> 3]
    /\ pc' = "done"
    /\ op' = "encode"
    /\ UNCHANGED <<imageSize, fkind, xRange, yRange, canvas, x, y, call,
                   sample, hsv, rgb, nwrites, npaint>>

Coords == [x : -1 .. MaxDim, y : -1 .. MaxDim]

Next ==
    \/ \E p \in Coords, c \in Colors : Write(p, c)
    \/ \E xr \in Ranges, yr \in Ranges, fk \in Functions : PaintBegin(xr, yr, fk)
    \/ PaintStep
    \/ Encode

Spec == Init /\ [][Next]_vars

----------------------------------------------------------------------------
(* hsv2rgb called on its own, over a grid of HSV triples *)

HueInputs == (0 .. Scale) \cup { k * 30 * Scale : k \in 1 .. 12 }

(* saturations and values in quarters: doubles hold them, and their       *)
(* products with 255, exactly                                               *)
UnitInputs == { k * (Scale \div 4) : k \in 0 .. 4 }

HsvInputs == { HSVColor(Fin(h), Fin(s), Fin(v)) :
                 h \in HueInputs, s \in UnitInputs, v \in UnitInputs }

InitHsv ==
    /\ imageSize = [width |-> 1, height |-> 1]
    /\ fkind = "none"
    /\ xRange = 0
    /\ yRange = 0
    /\ canvas = CanvasNew(imageSize)
    /\ pc = "hsv"
    /\ x = 0
    /\ y = 0
    /\ op = "none"
    /\ call = NoCall
    /\ sample = NoSample
    /\ hsv \in HsvInputs
    /\ rgb = NoRGB
    /\ encoded = NoEncode
    /\ nwrites = 0
    /\ npaint = 0

HsvCall ==
    /\ pc = "hsv"
    /\ rgb' = hsv2rgb(hsv)
    /\ pc' = "hsvdone"
    /\ op' = "hsv2rgb"
    /\ UNCHANGED <<imageSize, fkind, xRange, yRange, canvas, x, y, call,
                   sample, hsv, encoded, nwrites, npaint>>

NextHsv == HsvCall

SpecHsv == InitHsv /\ [][NextHsv]_vars

----------------------------------------------------------------------------
(* Claims about Canvas *)

W == imageSize.width

H == imageSize.height

Valid(p) == 0 <= p.x /\ p.x < W /\ 0 <= p.y /\ p.y < H

(* a Canvas::write call was made by the step leading to the primed state *)
WriteCalled == op = "write" \/ (op = "paint" /\ rgb.ok)

(* C1: a write with a valid coordinate sets the 3 bytes at (y*W + x)*3,    *)
(* +1, +2 to red, green, blue and leaves every other byte as it was         *)
C1_WriteSetsThreeBytes ==
    [][ (WriteCalled' /\ Valid(call'.p)) =>
          LET at == (call'.p.y * W + call'.p.x) * 3 IN
          /\ DOMAIN canvas'.pixels = DOMAIN canvas.pixels
          /\ \A i \in DOMAIN canvas.pixels :
                canvas'.pixels[i] =
                    IF i = at THEN call'.color.red
                    ELSE IF i = at + 1 THEN call'.color.green
                    ELSE IF i = at + 2 THEN call'.color.blue
                    ELSE canvas.pixels[i] ]_vars

(* C1 witness: a direct write at (1,1) of a 3-wide canvas landed at 12..14 *)
C1_Witness ==
    /\ op = "write"
    /\ W = 3
    /\ H >= 2
    /\ call.p = Point(1, 1)
    /\ canvas.pixels[12] = 10
    /\ canvas.pixels[13] = 20
    /\ canvas.pixels[14] = 30
    /\ canvas.pixels[11] = 255
    /\ canvas.pixels[15] = 255

(* C2: a write with an out-of-bounds coordinate changes no byte of the     *)
(* buffer and raises nothing                                                *)
C2_OutOfBoundsWriteIsNoOp ==
    [][ (op' = "write" /\ ~Valid(call'.p)) =>
          /\ canvas' = canvas
          /\ pc' = pc ]_vars

(* C2 witness: a direct write at x = W, y = 0 was made on a painted canvas *)
(* of two rows or more, whose next row starts with a pixel that is not white*)
C2_Witness ==
    /\ op = "write"
    /\ pc = "painted"
    /\ call.p.x = W
    /\ call.p.y = 0
    /\ H >= 2
    /\ canvas.pixels[W * 3] # 255

(* C3: a freshly constructed canvas has W*H*3 bytes, all 255 *)
C3_FreshCanvasIsWhite ==
    op = "new" =>
        /\ canvas.size = imageSize
        /\ DOMAIN canvas.pixels = 0 .. (W * H * 3 - 1)
        /\ Cardinality(DOMAIN canvas.pixels) = W * H * 3
        /\ \A i \in DOMAIN canvas.pixels : canvas.pixels[i] = 255

(* C3 witness: a fresh 2x3 canvas of 18 bytes *)
C3_Witness ==
    /\ op = "new"
    /\ W = 2
    /\ H = 3
    /\ Cardinality(DOMAIN canvas.pixels) = 18

(* C4: the buffer always has W*H*3 bytes, the size never changes, and the  *)
(* encoder is handed exactly width*height*3 bytes                           *)
C4_BufferLengthInvariant ==
    /\ canvas.size = imageSize
    /\ Cardinality(DOMAIN canvas.pixels) = W * H * 3
    /\ pc = "done" =>
          /\ encoded.width = W
          /\ encoded.height = H
          /\ encoded.depth = 3
          /\ encoded.len = encoded.width * encoded.height * 3

(* C4 witness: a 2x3 canvas was written to directly, painted and encoded *)
C4_Witness ==
    /\ pc = "done"
    /\ nwrites > 0
    /\ W = 2
    /\ H = 3
    /\ encoded.len = 18

----------------------------------------------------------------------------
(* Claims about the sampler and the pixel-to-plane mapping *)

NonFinite(w) == ~isfinite(w.re) \/ ~isfinite(w.im)

(* the canvas bytes of pixel (px, py) *)
PixelAt(px, py) ==
    LET at == (py * W + px) * 3 IN
    RGBColor(canvas.pixels[at], canvas.pixels[at + 1], canvas.pixels[at + 2])

(* C5: a sample at which f is NaN or infinite never aborts the render or   *)
(* fails an assertion; its pixel is written, with the value term set to 1.0 *)
C5_NonFiniteSampleIsPainted ==
    (op = "paint" /\ NonFinite(sample.w)) =>
        /\ pc # "aborted"
        /\ rgb.ok
        /\ hsv.value = Fin(One)
        /\ call.p = Point(sample.px, sample.py)
        /\ PixelAt(sample.px, sample.py) = rgb.color

(* C6: at every hsv2rgb call of a render the hue, the saturation and the   *)
(* value lie in [0,1], so the assertions of hsv2rgb hold                    *)
C6_HsvInDomainAtEveryCall ==
    op = "paint" =>
        /\ \A c \in {hsv.hue, hsv.saturation, hsv.value} :
              c.k = "fin" /\ 0 <= c.n /\ c.n <= Scale
        /\ rgb.ok

(* C9: the plane coordinates of the first and last pixel of a row (column) *)
(* are -xRange and +xRange (-yRange and +yRange)                            *)
C9_EdgesReachRange ==
    op = "paint" =>
        /\ sample.px = 0     => sample.xf = -(xRange * Scale)
        /\ sample.px = W - 1 => sample.xf = xRange * Scale
        /\ sample.py = 0     => sample.yf = -(yRange * Scale)
        /\ sample.py = H - 1 => sample.yf = yRange * Scale

(* C10: with f(z) = z on a canvas of odd width and height, the centre      *)
(* pixel ((W-1)/2, (H-1)/2) is sampled at z = 0 and its saturation is 0.5   *)
C10_OddCentreIsOrigin ==
    ( /\ op = "paint"
      /\ fkind = "z"
      /\ W % 2 = 1
      /\ H % 2 = 1
      /\ sample.px = (W - 1) \div 2
      /\ sample.py = (H - 1) \div 2 ) =>
        /\ sample.w = Complex(Fin(0), Fin(0))
        /\ hsv.saturation = Fin(Half)

----------------------------------------------------------------------------
(* Claims about the render pass *)

(* the render pass has ended: paint_complex returned, or the program       *)
(* aborted inside it                                                        *)
PassEnded == pc \in {"painted", "done", "aborted"}

(* the write made by the last loop iteration is the npaint-th of the pass, *)
(* at the npaint-th pixel in row-major order, with the colour sampled at    *)
(* that pixel's plane coordinate                                            *)
LastWriteInOrder ==
    /\ call.p = Point((npaint - 1) % W, (npaint - 1) \div W)
    /\ sample.px = call.p.x
    /\ sample.py = call.p.y
    /\ sample.xf = (((call.p.x * Scale) \div W) - Half) * xRange
    /\ sample.yf = (((call.p.y * Scale) \div H) - Half) * yRange
    /\ hsv = color(sample.w)
    /\ call.color = rgb.color
    /\ PixelAt(call.p.x, call.p.y) = rgb.color

(* C11: every loop iteration writes its pixel, in row-major order, with    *)
(* the colour sampled at the pixel's own plane coordinate, and the pass     *)
(* ends after exactly W*H writes                                            *)
C11_PassWritesEveryPixelInOrder ==
    /\ op = "paint" => (rgb.ok /\ LastWriteInOrder)
    /\ PassEnded => npaint = W * H

(* every pass that returns from paint_complex has made W*H writes, each in *)
(* row-major order                                                          *)
ReturnedPassWroteEveryPixel ==
    /\ (op = "paint" /\ rgb.ok) => LastWriteInOrder
    /\ pc \in {"painted", "done"} => npaint = W * H

(* floor(6 * a) for the phase fraction a = (pi + atan2(-Im w, -Re w)) /   *)
(* (2*pi) of a finite w                                                     *)
PhaseSixth(w) == Sector12(w.re.n, w.im.n) \div 2

(* C12: the hue handed to hsv2rgb is the phase fraction scaled to the full *)
(* hue extent of 360, so that for saturation > 0 the sector index hsv2rgb   *)
(* switches on is floor(6 * a)                                              *)
C12_SectorIsSixthOfPhase ==
    (op = "paint" /\ rgb.ok /\ hsv.saturation.n > 0) =>
        hsv2rgbSector(hsv.hue.n) = PhaseSixth(sample.w)

(* what the code does instead: the hue is the phase fraction itself, in    *)
(* [0,1], and the sector index is 0 at every sample                         *)
SectorIsAlwaysZero ==
    (op = "paint" /\ rgb.ok) =>
        /\ hsv.hue.n <= One
        /\ hsv2rgbSector(hsv.hue.n) = 0

----------------------------------------------------------------------------
(* Claims about hsv2rgb, under SpecHsv *)

Gray(b) == RGBColor(b, b, b)

(* C7 as amended: for saturation 0 and hue, value in [0,1], hsv2rgb        *)
(* returns the gray (b, b, b) with b = value * 255 truncated toward zero,   *)
(* whatever the hue                                                         *)
C7_ZeroSaturationIsTruncatedGray ==
    (pc = "hsvdone" /\ hsv.saturation.n = 0 /\ hsv.hue.n <= Scale) =>
        /\ rgb.ok
        /\ rgb.color = Gray((hsv.value.n * 255) \div Scale)

(* C7 as stated: the gray is round(value * 255) *)
C7_ZeroSaturationIsRoundedGray ==
    (pc = "hsvdone" /\ hsv.saturation.n = 0 /\ hsv.hue.n <= Scale) =>
        /\ rgb.ok
        /\ rgb.color = Gray((2 * hsv.value.n * 255 + Scale) \div (2 * Scale))

(* C7 witness: hue 0.5, saturation 0, value 0.5 gave (127, 127, 127) *)
C7_Witness ==
    /\ pc = "hsvdone"
    /\ hsv = HSVColor(Fin(Half), Fin(0), Fin(Half))
    /\ rgb.ok
    /\ rgb.color = Gray(127)

(* C8: hsv2rgb at hue 360 returns the RGB triple it returns at hue 0, for  *)
(* every saturation and value in [0,1]                                      *)
C8_Hue360EqualsHue0 ==
    (pc = "hsvdone" /\ hsv.hue = Fin(360 * Scale)) =>
        /\ rgb.ok
        /\ rgb = hsv2rgb(HSVColor(Fin(0), hsv.saturation, hsv.value))

============================================================================
